---- MODULE Spec2Model ----
(***************************************************************************)
(* Model of docker/ffmpeg/handler.py: the RunPod job handler that fetches  *)
(* a video, probes its duration, extracts a clip or a thumbnail with       *)
(* ffmpeg, encodes the artifact and cleans its temporary directory.        *)
(*                                                                         *)
(* Seconds (Python floats) are modelled as integers; file contents are     *)
(* short sequences of bytes.                                               *)
(***************************************************************************)
EXTENDS Integers, Sequences, FiniteSets, TLC

\* ------------------------------------------------------------------ bounds
MaxTime == 2            \* largest start_time / duration / time a request carries
MaxVideoDuration == 2   \* largest duration ffprobe reports
MaxDirs == 2            \* names tempfile.mkdtemp can draw from
MaxFileLen == 1         \* longest artifact ffmpeg writes, in bytes

\* ------------------------------------------------------- JSON-like values
\* A field of the request: absent, a number, or a string.
Absent == [t |-> "absent", n |-> 0, s |-> ""]
Num(n) == [t |-> "num", n |-> n, s |-> ""]
Str(s) == [t |-> "str", n |-> 0, s |-> s]

\* dict.get(key, default): the value of the key, the default when absent.
Get(m, k, default) == IF m[k].t = "absent" THEN default ELSE m[k]

\* Truthy as 'is not None' would test it: the empty string passes.
Truthy_NotNone(v) == v.t # "absent"

\* Python truthiness of a value obtained by dict.get(key) (None when absent).
Truthy(v) ==
  CASE v.t = "absent" -> FALSE
    [] v.t = "num" -> v.n # 0
    [] v.t = "str" -> v.s # ""

\* str(value) as it appears in the strings the requests of the model carry.
NumericStrings == {"1"}
ParseFloat(s) == CASE s = "1" -> 1

\* float(v): numbers convert, numeric strings parse, anything else raises.
FloatOk(v) == v.t = "num" \/ (v.t = "str" /\ v.s \in NumericStrings)
Float(v) == IF v.t = "num" THEN v.n ELSE ParseFloat(v.s)
FloatError(v) == "could not convert string to float: '" \o v.s \o "'"

\* ------------------------------------------------------------- the events
DefaultOperation_Thumbnail == Str("generate_thumbnail")
DefaultOperation == Str("extract_clip")
UnknownOperation == Str("unknown")
DefaultDuration == 30
DefaultStartTime == 0
DefaultTime == 0
DefaultQuality == Str("medium")
DefaultFormat == Str("mp4")

GoodUrl == "https://cdn.example/v.mov?sig=1"
Operations == {Absent, Str("extract_clip"), Str("generate_thumbnail"), Str("resize")}
VideoUrls == {Absent, Str(""), Str(GoodUrl), Num(7)}
Times == {Absent, Str("abc"), Str("1")} \cup {Num(n) : n \in -1..MaxTime}
ThumbTimes == {Absent, Str("abc"), Num(-1), Num(1)}
Qualities == {Absent, Str("high"), Str("medium"), Str("low"), Str("ultra")}
Formats == {Absent, Str("webm")}

\* The maps a request carries. A key that the branch of the request never
\* reads is left out of the map; the encoding options (quality,
\* output_format) vary on requests whose url and times are good, and the
\* operation, the url and the times vary on requests that leave the
\* encoding options out.
ClipOperations == Operations \ {Str("generate_thumbnail")}
ClipInputs ==
  [operation : ClipOperations, video_url : VideoUrls,
   start_time : Times, duration : Times, time : {Absent},
   quality : {Absent}, output_format : {Absent}]
    \cup
  [operation : ClipOperations, video_url : {Str(GoodUrl)},
   start_time : {Absent, Num(1)}, duration : {Absent, Num(MaxTime)},
   time : {Absent}, quality : Qualities, output_format : Formats]
ThumbnailInputs ==
  [operation : {Str("generate_thumbnail")}, video_url : VideoUrls,
   start_time : {Absent}, duration : {Absent}, time : ThumbTimes,
   quality : {Absent}, output_format : {Absent}]
JobInputs == ClipInputs \cup ThumbnailInputs

EmptyInput ==
  [operation |-> Absent, video_url |-> Absent, start_time |-> Absent,
   duration |-> Absent, time |-> Absent, quality |-> Absent,
   output_format |-> Absent]

\* An event: its 'input' key is absent, null, a string, or a map.
Events ==
  [input : {"absent", "null", "str"}, fields : {EmptyInput}]
    \cup [input : {"map"}, fields : JobInputs]

\* event.get('input', {}): the map, {} when the key is absent; None and
\* strings come back as they are and have no .get.
HasGet(ev) == ev.input \in {"absent", "map"}
NoGetError(ev) ==
  IF ev.input = "null" THEN "'NoneType' object has no attribute 'get'"
  ELSE "'str' object has no attribute 'get'"

\* ------------------------------------------------------------ file system
Bytes == {0, 255}
Contents == UNION {[1..n -> Bytes] : n \in 0..MaxFileLen}

DirNames == 1..MaxDirs
NoDir == [exists |-> FALSE, input |-> FALSE, hasOutput |-> FALSE, output |-> <<>>]
EmptyDir == [exists |-> TRUE, input |-> FALSE, hasOutput |-> FALSE, output |-> <<>>]

\* ------------------------------------------------------------------ state
VARIABLES
  jobs,            \* the handler invocations of this run
  event,           \* event[j]: the event handler(event) was called with
  pc,              \* pc[j]: the statement invocation j is at
  fs,              \* the temporary directories on disk and their files
  temp_dir,        \* handler's temp_dir: 0 is None, otherwise a directory name
  operation, video_url, video_duration,
  start_time, duration, time, quality, output_format,
  output_data,     \* the bytes read back from the artifact
  result,          \* the response the try or except block hands to 'return'
  exc,             \* the exception in flight, if any
  outcome,         \* what the hosting runtime got back from handler
  calls,           \* calls[j]: the helpers and tools invoked, in order
  probe,           \* how the ffprobe run of the job ended
  clip_args,       \* the arguments extract_clip handed to ffmpeg
  released,        \* how the finally block's cleanup ended
  ffmpeg_run       \* subprocess.run's result for ffmpeg: how the run ended

vars == <<jobs, event, pc, fs, temp_dir, operation, video_url, video_duration,
          start_time, duration, time, quality, output_format, output_data,
          result, exc, outcome, calls, probe, clip_args, released,
          ffmpeg_run>>

NoExc == [raised |-> FALSE, msg |-> ""]
NoResult == [none |-> TRUE]
Running == [status |-> "running"]
NoClipArgs == [called |-> FALSE]
NoRun == [kind |-> "none", data |-> <<>>]

InitJob(js, evs) ==
  /\ jobs = js
  /\ event \in [js -> evs]
  /\ pc = [j \in js |-> "start"]
  /\ fs = [d \in DirNames |-> NoDir]
  /\ temp_dir = [j \in js |-> 0]
  /\ operation = [j \in js |-> Absent]
  /\ video_url = [j \in js |-> Absent]
  /\ video_duration = [j \in js |-> 0]
  /\ start_time = [j \in js |-> 0]
  /\ duration = [j \in js |-> 0]
  /\ time = [j \in js |-> 0]
  /\ quality = [j \in js |-> Absent]
  /\ output_format = [j \in js |-> Absent]
  /\ output_data = [j \in js |-> <<>>]
  /\ result = [j \in js |-> NoResult]
  /\ exc = [j \in js |-> NoExc]
  /\ outcome = [j \in js |-> Running]
  /\ calls = [j \in js |-> <<>>]
  /\ probe = [j \in js |-> "none"]
  /\ clip_args = [j \in js |-> NoClipArgs]
  /\ released = [j \in js |-> "none"]
  /\ ffmpeg_run = [j \in js |-> NoRun]

\* One invocation of handler, on any event.
Init == InitJob({1}, Events)

\* ---------------------------------------------------------------- helpers
Goto(j, label) == pc' = [pc EXCEPT ![j] = label]

\* raise inside the try block: control moves to 'except Exception as e'.
Raise(j, msg) ==
  /\ exc' = [exc EXCEPT ![j] = [raised |-> TRUE, msg |-> msg]]
  /\ pc' = [pc EXCEPT ![j] = "except"]

Call(j, name) == calls' = [calls EXCEPT ![j] = Append(@, name)]

\* --------------------------------------------------------------- handler
\* Lines 192-204: log the job, read operation and video_url, require the url.
Validate(j) ==
  /\ pc[j] = "start"
  /\ IF ~HasGet(event[j])
       THEN /\ Raise(j, NoGetError(event[j]))
            /\ UNCHANGED <<operation, video_url>>
       ELSE /\ operation' = [operation EXCEPT
                               ![j] = Get(event[j].fields, "operation", DefaultOperation)]
            /\ video_url' = [video_url EXCEPT ![j] = event[j].fields.video_url]
            /\ IF ~Truthy(event[j].fields.video_url)
                 THEN Raise(j, "video_url is required")
                 ELSE Goto(j, "acquire") /\ UNCHANGED exc
  /\ UNCHANGED <<jobs, ffmpeg_run, event, fs, temp_dir, video_duration, start_time,
                 duration, time, quality, output_format, output_data, result,
                 outcome, calls, probe, clip_args, released>>

\* Lines 206-208: tempfile.mkdtemp() creates a directory under a name no
\* existing directory has, or fails (no space, no permission).
mkdtemp_AnyName == DirNames

\* tempfile.mkdtemp (line 207) creates a directory that did not exist: the
\* names it can return are the ones not on disk.
mkdtemp == {d \in DirNames : ~fs[d].exists}

Acquire(j) ==
  /\ pc[j] = "acquire"
  /\ \/ \E d \in mkdtemp :
          /\ fs' = [fs EXCEPT ![d] = EmptyDir]
          /\ temp_dir' = [temp_dir EXCEPT ![j] = d]
          /\ Call(j, "mkdtemp")
          /\ Goto(j, "input_path")
          /\ UNCHANGED exc
     \/ /\ Raise(j, "[Errno 28] No space left on device")
        /\ Call(j, "mkdtemp")
        /\ UNCHANGED <<fs, temp_dir>>
  /\ UNCHANGED <<jobs, ffmpeg_run, event, operation, video_url, video_duration, start_time,
                 duration, time, quality, output_format, output_data, result,
                 outcome, probe, clip_args, released>>

\* Lines 210-214: video_url.split('?') needs a string.
InputPath(j) ==
  /\ pc[j] = "input_path"
  /\ IF video_url[j].t # "str"
       THEN Raise(j, "'int' object has no attribute 'split'")
       ELSE Goto(j, "download") /\ UNCHANGED exc
  /\ UNCHANGED <<jobs, ffmpeg_run, event, fs, temp_dir, operation, video_url,
                 video_duration, start_time, duration, time, quality,
                 output_format, output_data, result, outcome, calls, probe,
                 clip_args, released>>

\* Lines 216-217 and download_file (17-41): stream the url into the input
\* file; any failure is re-raised as "Download failed: ...", and a transfer
\* that breaks midway leaves a partial input file behind.
DownloadFailures == {"HTTP 404", "Read timed out"}

\* download_file that tries again after a failed transfer instead of
\* raising.
download_file_Retry(j) ==
  /\ pc[j] = "download"
  /\ Call(j, "download_file")
  /\ \/ /\ fs' = [fs EXCEPT ![temp_dir[j]].input = TRUE]
        /\ Goto(j, "probe")
     \/ \E partial \in BOOLEAN :
          /\ fs' = [fs EXCEPT ![temp_dir[j]].input = partial]
          /\ Len(calls[j]) < 3
          /\ UNCHANGED pc
  /\ UNCHANGED <<jobs, ffmpeg_run, event, temp_dir, operation, video_url,
                 video_duration, start_time, duration, time, quality,
                 output_format, output_data, result, exc, outcome, probe,
                 clip_args, released>>

download_file(j) ==
  /\ pc[j] = "download"
  /\ Call(j, "download_file")
  /\ \/ /\ fs' = [fs EXCEPT ![temp_dir[j]].input = TRUE]
        /\ Goto(j, "probe")
        /\ UNCHANGED exc
     \/ \E cause \in DownloadFailures, partial \in BOOLEAN :
          /\ fs' = [fs EXCEPT ![temp_dir[j]].input = partial]
          /\ Raise(j, "Download failed: " \o cause)
  /\ UNCHANGED <<jobs, ffmpeg_run, event, temp_dir, operation, video_url, video_duration,
                 start_time, duration, time, quality, output_format,
                 output_data, result, outcome, probe, clip_args, released>>

\* Lines 219-220 and get_video_duration (43-60): run ffprobe and parse its
\* output; every exception becomes 0.0.
ProbedDurations == 0..MaxVideoDuration \cup {60}
ProbeFailures == {"tool missing", "non-zero exit", "unparsable output"}

\* get_video_duration without its try/except: a failing probe raises into
\* handler.
get_video_duration_Raises(j) ==
  /\ pc[j] = "probe"
  /\ Call(j, "ffprobe")
  /\ \/ \E d \in ProbedDurations :
          /\ video_duration' = [video_duration EXCEPT ![j] = d]
          /\ probe' = [probe EXCEPT ![j] = "ok"]
          /\ Goto(j, IF operation[j] = Str("generate_thumbnail")
                       THEN "thumbnail_args" ELSE "clip_args")
          /\ UNCHANGED exc
     \/ \E f \in ProbeFailures :
          /\ probe' = [probe EXCEPT ![j] = f]
          /\ Raise(j, "ffprobe: " \o f)
          /\ UNCHANGED video_duration
  /\ UNCHANGED <<jobs, ffmpeg_run, event, fs, temp_dir, operation, video_url, start_time,
                 duration, time, quality, output_format, output_data, result,
                 outcome, clip_args, released>>

get_video_duration(j) ==
  /\ pc[j] = "probe"
  /\ Call(j, "ffprobe")
  /\ \/ \E d \in ProbedDurations :
          /\ video_duration' = [video_duration EXCEPT ![j] = d]
          /\ probe' = [probe EXCEPT ![j] = "ok"]
     \/ \E f \in ProbeFailures :
          /\ video_duration' = [video_duration EXCEPT ![j] = 0]
          /\ probe' = [probe EXCEPT ![j] = f]
  /\ Goto(j, IF operation[j] = Str("generate_thumbnail")
               THEN "thumbnail_args" ELSE "clip_args")
  /\ UNCHANGED <<jobs, ffmpeg_run, event, fs, temp_dir, operation, video_url, start_time,
                 duration, time, quality, output_format, output_data, result,
                 exc, outcome, clip_args, released>>

\* ------------------------------------------------------- the ffmpeg runs
\* How one run of ffmpeg can end: killed at the timeout, a non-zero exit
\* code, exit code zero without an output file, or exit code zero with an
\* output file of some content (possibly zero bytes).
ToolRuns ==
  [kind : {"timeout", "nonzero", "nofile"}, data : {<<>>}]
    \cup [kind : {"written"}, data : Contents]

\* What the run leaves in the job's directory.
WriteOutput(dir, run) ==
  IF run.kind = "written"
    THEN [dir EXCEPT !.hasOutput = TRUE, !.output = run.data]
    ELSE dir

\* base64.b64encode(...).decode('utf-8')
B64Alphabet ==
  << "A", "B", "C", "D", "E", "F", "G", "H", "I", "J", "K", "L", "M", "N", "O", "P",
     "Q", "R", "S", "T", "U", "V", "W", "X", "Y", "Z", "a", "b", "c", "d", "e", "f",
     "g", "h", "i", "j", "k", "l", "m", "n", "o", "p", "q", "r", "s", "t", "u", "v",
     "w", "x", "y", "z", "0", "1", "2", "3", "4", "5", "6", "7", "8", "9", "+", "/" >>
B64Char(i) == B64Alphabet[i + 1]

RECURSIVE b64encode(_)
b64encode(bs) ==
  IF Len(bs) = 0 THEN ""
  ELSE IF Len(bs) = 1 THEN
    LET n == bs[1] * 65536
    IN B64Char(n \div 262144) \o B64Char((n \div 4096) % 64) \o "=="
  ELSE IF Len(bs) = 2 THEN
    LET n == bs[1] * 65536 + bs[2] * 256
    IN B64Char(n \div 262144) \o B64Char((n \div 4096) % 64)
         \o B64Char((n \div 64) % 64) \o "="
  ELSE
    LET n == bs[1] * 65536 + bs[2] * 256 + bs[3]
    IN B64Char(n \div 262144) \o B64Char((n \div 4096) % 64)
         \o B64Char((n \div 64) % 64) \o B64Char(n % 64)
         \o b64encode(SubSeq(bs, 4, Len(bs)))

\* ------------------------------------------------------ thumbnail branch
\* Lines 223-225: time = float(job_input.get('time', 0)).
ThumbnailArgs(j) ==
  /\ pc[j] = "thumbnail_args"
  /\ LET v == Get(event[j].fields, "time", Num(DefaultTime))
     IN IF FloatOk(v)
          THEN /\ time' = [time EXCEPT ![j] = Float(v)]
               /\ Goto(j, "thumbnail")
               /\ UNCHANGED exc
          ELSE /\ Raise(j, FloatError(v))
               /\ UNCHANGED time
  /\ UNCHANGED <<jobs, ffmpeg_run, event, fs, temp_dir, operation, video_url,
                 video_duration, start_time, duration, quality, output_format,
                 output_data, result, outcome, calls, probe, clip_args,
                 released>>

\* generate_thumbnail, lines 158-172: the checks made on the ffmpeg run.
\* The size of the file is read for the log line only.
ThumbnailFails(run) == run.kind \in {"timeout", "nonzero", "nofile"}
ThumbnailError(run) ==
  CASE run.kind = "timeout" ->
         "Thumbnail error: Command 'ffmpeg' timed out after 30 seconds"
    [] run.kind = "nonzero" ->
         "Thumbnail error: Thumbnail generation failed: <stderr>"
    [] run.kind = "nofile" ->
         "Thumbnail error: Thumbnail file was not created"

\* Line 227 and generate_thumbnail (138-172).
generate_thumbnail(j) ==
  /\ pc[j] = "thumbnail"
  /\ Call(j, "ffmpeg_thumbnail")
  /\ \E run \in ToolRuns :
       /\ ffmpeg_run' = [ffmpeg_run EXCEPT ![j] = run]
       /\ fs' = [fs EXCEPT ![temp_dir[j]] = WriteOutput(@, run)]
       /\ IF ThumbnailFails(run)
            THEN Raise(j, ThumbnailError(run))
            ELSE Goto(j, "read") /\ UNCHANGED exc
  /\ UNCHANGED <<jobs, event, temp_dir, operation, video_url, video_duration,
                 start_time, duration, time, quality, output_format,
                 output_data, result, outcome, probe, clip_args, released>>

\* ----------------------------------------------------------- clip branch
\* Lines 246-250: the four parameters of a clip; float() of start_time is
\* evaluated before float() of duration.
ClipArgs(j) ==
  /\ pc[j] = "clip_args"
  /\ LET s == Get(event[j].fields, "start_time", Num(DefaultStartTime))
         d == Get(event[j].fields, "duration", Num(DefaultDuration))
     IN IF ~FloatOk(s) THEN
          /\ Raise(j, FloatError(s))
          /\ UNCHANGED <<start_time, duration, quality, output_format>>
        ELSE IF ~FloatOk(d) THEN
          /\ start_time' = [start_time EXCEPT ![j] = Float(s)]
          /\ Raise(j, FloatError(d))
          /\ UNCHANGED <<duration, quality, output_format>>
        ELSE
          /\ start_time' = [start_time EXCEPT ![j] = Float(s)]
          /\ duration' = [duration EXCEPT ![j] = Float(d)]
          /\ quality' = [quality EXCEPT
                           ![j] = Get(event[j].fields, "quality", DefaultQuality)]
          /\ output_format' = [output_format EXCEPT
                                 ![j] = Get(event[j].fields, "output_format", DefaultFormat)]
          /\ Goto(j, "validate_times")
          /\ UNCHANGED exc
  /\ UNCHANGED <<jobs, ffmpeg_run, event, fs, temp_dir, operation, video_url,
                 video_duration, time, output_data, result, outcome, calls,
                 probe, clip_args, released>>

\* Clamp that cuts the duration to the length of the source, forgetting the
\* start of the clip.
Clamp_ToSourceLength(s, d, D) == IF D > 0 /\ s + d > D THEN D ELSE d

\* Lines 257-259: a clip that runs past the end of a source of known
\* duration is cut at the end of the source.
Clamp(s, d, D) == IF D > 0 /\ s + d > D THEN D - s ELSE d

\* Lines 252-261: validate the times, then clamp the duration.
ValidateTimes(j) ==
  /\ pc[j] = "validate_times"
  /\ IF start_time[j] < 0 THEN
       Raise(j, "start_time must be >= 0") /\ UNCHANGED duration
     ELSE IF duration[j] <= 0 THEN
       Raise(j, "duration must be > 0") /\ UNCHANGED duration
     ELSE
       /\ duration' = [duration EXCEPT
                         ![j] = Clamp(start_time[j], duration[j], video_duration[j])]
       /\ Goto(j, "extract")
       /\ UNCHANGED exc
  /\ UNCHANGED <<jobs, ffmpeg_run, event, fs, temp_dir, operation, video_url,
                 video_duration, start_time, time, quality, output_format,
                 output_data, result, outcome, calls, probe, clip_args,
                 released>>

\* A preset table whose fallback is the high preset.
QualityPreset_FallbackHigh(q) ==
  CASE q = Str("high") -> [crf |-> "23", preset |-> "fast"]
    [] q = Str("medium") -> [crf |-> "25", preset |-> "faster"]
    [] q = Str("low") -> [crf |-> "28", preset |-> "veryfast"]
    [] OTHER -> [crf |-> "23", preset |-> "fast"]

\* extract_clip, lines 80-87: the preset of a quality, medium when unknown.
QualityPreset(q) ==
  CASE q = Str("high") -> [crf |-> "23", preset |-> "fast"]
    [] q = Str("medium") -> [crf |-> "25", preset |-> "faster"]
    [] q = Str("low") -> [crf |-> "28", preset |-> "veryfast"]
    [] OTHER -> [crf |-> "25", preset |-> "faster"]

\* extract_clip, lines 110-136: the checks made on the ffmpeg run. The
\* exception of the timeout is raised from its own except clause and is not
\* wrapped again.
ClipFails_NoSizeCheck(run) == run.kind # "written"
ClipFails(run) == run.kind # "written" \/ Len(run.data) = 0
ClipError(run) ==
  CASE run.kind = "timeout" -> "FFmpeg processing timed out after 10 minutes"
    [] run.kind = "nonzero" -> "FFmpeg error: FFmpeg processing failed: <stderr>"
    [] run.kind = "nofile" -> "FFmpeg error: Output file was not created"
    [] run.kind = "written" -> "FFmpeg error: Output file is empty"

\* Lines 263-264 and extract_clip (62-136).
extract_clip(j) ==
  /\ pc[j] = "extract"
  /\ Call(j, "ffmpeg_clip")
  /\ clip_args' = [clip_args EXCEPT
                     ![j] = [called |-> TRUE, start_time |-> start_time[j],
                             duration |-> duration[j],
                             settings |-> QualityPreset(quality[j])]]
  /\ \E run \in ToolRuns :
       /\ ffmpeg_run' = [ffmpeg_run EXCEPT ![j] = run]
       /\ fs' = [fs EXCEPT ![temp_dir[j]] = WriteOutput(@, run)]
       /\ IF ClipFails(run)
            THEN Raise(j, ClipError(run))
            ELSE Goto(j, "read") /\ UNCHANGED exc
  /\ UNCHANGED <<jobs, event, temp_dir, operation, video_url, video_duration,
                 start_time, duration, time, quality, output_format,
                 output_data, result, outcome, probe, released>>

\* ------------------------------------------------- artifact and response
\* Lines 229-231 and 266-268: read the artifact back; open() or read() can
\* fail with an I/O error.
ReadArtifact(j) ==
  /\ pc[j] = "read"
  /\ \/ /\ fs[temp_dir[j]].hasOutput
        /\ output_data' = [output_data EXCEPT ![j] = fs[temp_dir[j]].output]
        /\ Goto(j, "encode")
        /\ UNCHANGED exc
     \/ /\ Raise(j, "[Errno 5] Input/output error")
        /\ UNCHANGED output_data
  /\ UNCHANGED <<jobs, ffmpeg_run, event, fs, temp_dir, operation, video_url,
                 video_duration, start_time, duration, time, quality,
                 output_format, result, outcome, calls, probe, clip_args,
                 released>>

\* Lines 236-243: the response of a thumbnail job.
ThumbnailResult(data, t) ==
  [success |-> TRUE, operation |-> Str("generate_thumbnail"),
   thumbnail_data |-> b64encode(data), file_size |-> Len(data),
   format |-> Str("jpg"), time |-> t]

\* ClipResult of a handler that gives every response an error field.
ClipResult_WithErrorField(data, fmt, s, d, q, D) ==
  [success |-> TRUE, operation |-> Str("extract_clip"),
   clip_data |-> b64encode(data), file_size |-> Len(data), format |-> fmt,
   start_time |-> s, duration |-> d, quality |-> q, video_duration |-> D,
   error |-> ""]

\* Lines 273-283: the response of a clip job.
ClipResult(data, fmt, s, d, q, D) ==
  [success |-> TRUE, operation |-> Str("extract_clip"),
   clip_data |-> b64encode(data), file_size |-> Len(data), format |-> fmt,
   start_time |-> s, duration |-> d, quality |-> q, video_duration |-> D]

\* FailureResult that hides the message of the exception.
FailureResult_GenericError(msg, op) ==
  [success |-> FALSE, error |-> "Job failed", operation |-> op]

\* FailureResult reporting the operation the job was treated as.
FailureResult_DefaultOperation(msg, op) ==
  [success |-> FALSE, error |-> msg,
   operation |-> IF op = UnknownOperation THEN DefaultOperation ELSE op]

\* Lines 291-295: the response of a failed job.
FailureResult(msg, op) == [success |-> FALSE, error |-> msg, operation |-> op]

\* Lines 233-243 and 270-286: encode the artifact and build the response;
\* the encoder can run out of memory (str(MemoryError()) is empty).
Encode(j) ==
  /\ pc[j] = "encode"
  /\ \/ /\ result' = [result EXCEPT
                        ![j] = IF operation[j] = Str("generate_thumbnail")
                                 THEN ThumbnailResult(output_data[j], time[j])
                                 ELSE ClipResult(output_data[j], output_format[j],
                                                 start_time[j], duration[j],
                                                 quality[j], video_duration[j])]
        /\ Goto(j, "finally")
        /\ UNCHANGED exc
     \/ /\ Raise(j, "")
        /\ UNCHANGED result
  /\ UNCHANGED <<jobs, ffmpeg_run, event, fs, temp_dir, operation, video_url,
                 video_duration, start_time, duration, time, quality,
                 output_format, output_data, outcome, calls, probe, clip_args,
                 released>>

\* Lines 288-295: turn the exception into the failure response. The
\* operation is read from the event again, with its own default; on an
\* input without .get this read raises inside the except clause.
Except(j) ==
  /\ pc[j] = "except"
  /\ IF HasGet(event[j])
       THEN /\ result' = [result EXCEPT
                            ![j] = FailureResult(exc[j].msg,
                                     Get(event[j].fields, "operation", UnknownOperation))]
            /\ exc' = [exc EXCEPT ![j] = NoExc]
       ELSE /\ exc' = [exc EXCEPT
                         ![j] = [raised |-> TRUE, msg |-> NoGetError(event[j])]]
            /\ UNCHANGED result
  /\ Goto(j, "finally")
  /\ UNCHANGED <<jobs, ffmpeg_run, event, fs, temp_dir, operation, video_url,
                 video_duration, start_time, duration, time, quality,
                 output_format, output_data, outcome, calls, probe, clip_args,
                 released>>

\* ShouldRelease as cleanup at the end of the try block would have it: only
\* a job that built its success response cleans up.
ShouldRelease_SuccessOnly(j) ==
  /\ temp_dir[j] # 0 /\ fs[temp_dir[j]].exists
  /\ result[j] # NoResult /\ result[j].success

\* CleanupError without the try/except around rmtree: its exception leaves
\* the finally block and replaces whatever handler was about to return.
CleanupError_Propagates(e) ==
  [raised |-> TRUE, msg |-> "[Errno 13] Permission denied"]

\* Lines 303-304: the exception of rmtree is caught and logged, so the
\* exception in flight (if any) is what it was before the cleanup.
CleanupError(e) == e

\* Line 299: there is a directory to remove.
ShouldRelease(j) == temp_dir[j] # 0 /\ fs[temp_dir[j]].exists

\* Lines 297-304: remove the directory if one was made and still exists; a
\* failing rmtree is logged and leaves the directory on disk.
Finally(j) ==
  /\ pc[j] = "finally"
  /\ IF ShouldRelease(j)
       THEN /\ Call(j, "rmtree")
            /\ \/ /\ fs' = [fs EXCEPT ![temp_dir[j]] = NoDir]
                  /\ released' = [released EXCEPT ![j] = "removed"]
                  /\ UNCHANGED exc
               \/ /\ UNCHANGED fs
                  /\ released' = [released EXCEPT ![j] = "failed"]
                  /\ exc' = [exc EXCEPT ![j] = CleanupError(@)]
       ELSE /\ released' = [released EXCEPT ![j] = "skipped"]
            /\ UNCHANGED <<fs, calls, exc>>
  /\ Goto(j, "return")
  /\ UNCHANGED <<jobs, ffmpeg_run, event, temp_dir, operation, video_url, video_duration,
                 start_time, duration, time, quality, output_format,
                 output_data, result, outcome, probe, clip_args>>

\* handler hands its response to the runtime, or the exception that left
\* the except clause propagates to it.
Return(j) ==
  /\ pc[j] = "return"
  /\ outcome' = [outcome EXCEPT
                   ![j] = IF exc[j].raised
                            THEN [status |-> "raised", error |-> exc[j].msg]
                            ELSE [status |-> "returned", response |-> result[j]]]
  /\ Goto(j, "done")
  /\ UNCHANGED <<jobs, ffmpeg_run, event, fs, temp_dir, operation, video_url,
                 video_duration, start_time, duration, time, quality,
                 output_format, output_data, result, exc, calls, probe,
                 clip_args, released>>

Next ==
  \/ \E j \in jobs : Validate(j)
  \/ \E j \in jobs : Acquire(j)
  \/ \E j \in jobs : InputPath(j)
  \/ \E j \in jobs : download_file(j)
  \/ \E j \in jobs : get_video_duration(j)
  \/ \E j \in jobs : ThumbnailArgs(j)
  \/ \E j \in jobs : generate_thumbnail(j)
  \/ \E j \in jobs : ClipArgs(j)
  \/ \E j \in jobs : ValidateTimes(j)
  \/ \E j \in jobs : extract_clip(j)
  \/ \E j \in jobs : ReadArtifact(j)
  \/ \E j \in jobs : Encode(j)
  \/ \E j \in jobs : Except(j)
  \/ \E j \in jobs : Finally(j)
  \/ \E j \in jobs : Return(j)

Spec == Init /\ [][Next]_vars

\* The scheduling of one job. Python runs every statement of handler once
\* control reaches it, and the blocking calls that carry a timeout end at
\* the latest when it expires: requests.get(timeout=300) at line 22 (taken
\* here as bounding the transfer), subprocess.run(timeout=600) at line 111
\* and subprocess.run(timeout=30) at line 159. The subprocess.run of ffprobe
\* at line 54 has no timeout, so nothing makes that step end if ffprobe
\* does not end on its own: it is the one step without fairness.
Fairness ==
  /\ WF_vars(\E j \in jobs : Validate(j))
  /\ WF_vars(\E j \in jobs : Acquire(j))
  /\ WF_vars(\E j \in jobs : InputPath(j))
  /\ WF_vars(\E j \in jobs : download_file(j))
  /\ WF_vars(\E j \in jobs : ThumbnailArgs(j))
  /\ WF_vars(\E j \in jobs : generate_thumbnail(j))
  /\ WF_vars(\E j \in jobs : ClipArgs(j))
  /\ WF_vars(\E j \in jobs : ValidateTimes(j))
  /\ WF_vars(\E j \in jobs : extract_clip(j))
  /\ WF_vars(\E j \in jobs : ReadArtifact(j))
  /\ WF_vars(\E j \in jobs : Encode(j))
  /\ WF_vars(\E j \in jobs : Except(j))
  /\ WF_vars(\E j \in jobs : Finally(j))
  /\ WF_vars(\E j \in jobs : Return(j))

LiveSpec == Init /\ [][Next]_vars /\ Fairness

\* Two invocations of handler running at once on one filesystem (the
\* serverless runtime may run jobs concurrently in one worker), their
\* steps interleaved in every order. Job 1 runs a whole pipeline, clip or
\* thumbnail; job 2 downloads and probes its source and is then refused
\* for its duration, so it creates, fills and removes a workspace while
\* job 1 is at any of its steps.
ConcJobs == {1, 2}
ConcRequest(op, dur) ==
  [input |-> "map",
   fields |-> [operation |-> op, video_url |-> Str(GoodUrl),
               start_time |-> Absent, duration |-> dur, time |-> Absent,
               quality |-> Absent, output_format |-> Absent]]
ConcEvents ==
  {ConcRequest(Absent, Absent), ConcRequest(Str("generate_thumbnail"), Absent),
   ConcRequest(Absent, Num(-1))}
ConcInit ==
  /\ InitJob(ConcJobs, ConcEvents)
  /\ event[1].fields.duration = Absent
  /\ event[2].fields.duration = Num(-1)
ConcSpec == ConcInit /\ [][Next]_vars

TypeOK ==
  /\ \A j \in jobs : temp_dir[j] \in 0..MaxDirs
  /\ \A j \in jobs : outcome[j].status \in {"running", "returned", "raised"}

\* ================================================================ claims
Range(f) == {f[i] : i \in DOMAIN f}
Done(j) == pc[j] = "done"
Returned(j) == outcome[j].status = "returned"
Succeeded(j) == Returned(j) /\ outcome[j].response.success
Failed(j) == Returned(j) /\ ~outcome[j].response.success
ExternalTools == {"ffprobe", "ffmpeg_clip", "ffmpeg_thumbnail"}

\* The request is a map (or is absent, which reads as the empty map).
IsRequest(ev) == ev.input \in {"absent", "map"}
IsClipRequest(ev) ==
  IsRequest(ev) /\ ev.fields.operation # Str("generate_thumbnail")
IsThumbnailRequest(ev) ==
  IsRequest(ev) /\ ev.fields.operation = Str("generate_thumbnail")

\* ------------------------------------------------------------------- C1
\* C1 as stated: when handler has returned, the temporary directory it made
\* for the job no longer exists, whichever step failed, the release step
\* included.
C1_WorkspaceNeverPersists ==
  \A j \in jobs :
    (Done(j) /\ temp_dir[j] # 0) => ~fs[temp_dir[j]].exists

\* C1 amended: when handler has returned, the temporary directory it made
\* for the job no longer exists, unless the recursive removal of the release
\* step itself failed (the failure is logged and the directory stays).
C1_WorkspaceGoneUnlessRemovalFails ==
  \A j \in jobs :
    (Done(j) /\ temp_dir[j] # 0 /\ released[j] # "failed")
      => ~fs[temp_dir[j]].exists

\* A job that failed after it had made its directory has returned, and the
\* release step removed the directory.
C1_Witness ==
  \E j \in jobs :
    /\ Done(j) /\ Failed(j)
    /\ temp_dir[j] # 0
    /\ released[j] = "removed"
    /\ ~fs[temp_dir[j]].exists

\* ------------------------------------------------------------------- C2
BadTimes(ev) ==
  /\ IsClipRequest(ev)
  /\ \/ ev.fields.start_time.t = "num" /\ ev.fields.start_time.n < 0
     \/ ev.fields.duration.t = "num" /\ ev.fields.duration.n <= 0
ValidationErrors ==
  {"video_url is required", "start_time must be >= 0", "duration must be > 0"}

\* C2: a clip request with start_time < 0 or duration <= 0 fails with a
\* validation error, and neither ffprobe nor ffmpeg has run in that job.
C2_ValidationBeforeTools ==
  \A j \in jobs :
    BadTimes(event[j]) =>
      /\ Range(calls[j]) \cap ExternalTools = {}
      /\ (Done(j) /\ event[j].fields.video_url.t # "num") =>
           Failed(j) /\ outcome[j].response.error \in ValidationErrors

\* ------------------------------------------------------------------- C3
MissingUrl(ev) == IsRequest(ev) /\ ev.fields.video_url \in {Absent, Str("")}

\* C3: a request whose video_url is absent or empty never makes a
\* directory, never fetches and never runs a tool, and its response is the
\* failure "video_url is required".
C3_MissingUrl ==
  \A j \in jobs :
    MissingUrl(event[j]) =>
      /\ temp_dir[j] = 0
      /\ calls[j] = <<>>
      /\ Done(j) =>
           /\ Failed(j)
           /\ outcome[j].response.error = "video_url is required"
           /\ \A d \in DirNames : ~fs[d].exists

\* The request {video_url: ""} has been answered.
C3_Witness ==
  \E j \in jobs :
    /\ Done(j) /\ Failed(j)
    /\ event[j].input = "map"
    /\ event[j].fields.video_url = Str("")
    /\ outcome[j].response.error = "video_url is required"

\* ------------------------------------------------------------------- C4
\* C4 as stated: the failure response of a request without an operation
\* field reports the default operation, "extract_clip".
C4_FailureEchoesDefault ==
  \A j \in jobs :
    (Done(j) /\ Failed(j) /\ event[j].fields.operation = Absent)
      => outcome[j].response.operation = Str("extract_clip")

\* C4 amended: the failure response reports the operation field of the
\* request as it was sent, and "unknown" when the request has none.
C4_FailureEchoesField ==
  \A j \in jobs :
    (Done(j) /\ Failed(j)) =>
      outcome[j].response.operation =
        IF event[j].fields.operation = Absent
          THEN Str("unknown")
          ELSE event[j].fields.operation

\* The request {video_url: ""} has been answered with operation "unknown".
C4_Witness ==
  \E j \in jobs :
    /\ Done(j) /\ Failed(j)
    /\ event[j].input = "map"
    /\ event[j].fields.operation = Absent
    /\ event[j].fields.video_url = Str("")
    /\ outcome[j].response.operation = Str("unknown")

\* ------------------------------------------------------------------- C5
\* The start_time and duration of the request, as handler reads them.
RequestedStart(ev) == Float(Get(ev.fields, "start_time", Num(DefaultStartTime)))
RequestedDuration(ev) == Float(Get(ev.fields, "duration", Num(DefaultDuration)))

\* C5: with D the probed duration and s, d the validated start_time and
\* duration of the request, extract_clip is given D - s when D > 0 and
\* s + d > D, and d when D = 0 or s + d <= D; the success response reports
\* that duration and video_duration = D.
C5_Clamping ==
  \A j \in jobs :
    clip_args[j].called =>
      LET s == RequestedStart(event[j])
          d == RequestedDuration(event[j])
          D == video_duration[j]
          passed == clip_args[j].duration
      IN /\ (D > 0 /\ s + d > D) => passed = D - s
         /\ (D = 0 \/ s + d <= D) => passed = d
         /\ (Done(j) /\ Succeeded(j)) =>
              /\ outcome[j].response.duration = passed
              /\ outcome[j].response.video_duration = D

\* A clip that started at 1 and ran past the end of the source succeeded
\* with the clamped duration.
C5_Witness ==
  \E j \in jobs :
    /\ Done(j) /\ Succeeded(j) /\ clip_args[j].called
    /\ RequestedStart(event[j]) = 1
    /\ video_duration[j] > 1
    /\ RequestedStart(event[j]) + RequestedDuration(event[j]) > video_duration[j]
    /\ outcome[j].response.duration = video_duration[j] - 1

\* ------------------------------------------------------------------- C6
\* C6: once the job has its directory, the exception of any step is turned
\* by the except block into a failure response that carries the message of
\* that exception; the job then runs rmtree and returns that response.
C6_FailureCaughtAndReleased ==
  /\ [][\A j \in jobs :
          (pc[j] = "except" /\ temp_dir[j] # 0 /\ pc'[j] # "except") =>
            /\ ~exc'[j].raised
            /\ result'[j] # NoResult
            /\ ~result'[j].success
            /\ result'[j].error = exc[j].msg]_vars
  /\ [](\A j \in jobs :
          (Done(j) /\ temp_dir[j] # 0) =>
            /\ "rmtree" \in Range(calls[j])
            /\ Returned(j)
            /\ outcome[j].response = result[j])

\* A job whose download failed has answered with the message of the
\* download, and rmtree ran.
C6_Witness ==
  \E j \in jobs :
    /\ Done(j) /\ Failed(j)
    /\ temp_dir[j] # 0
    /\ outcome[j].response.error = "Download failed: HTTP 404"
    /\ calls[j] = <<"mkdtemp", "download_file", "rmtree">>

\* ------------------------------------------------------------------- C7
\* C7: handler always returns a response; no exception reaches the runtime.
C7_NeverPropagates ==
  \A j \in jobs : outcome[j].status # "raised"

\* ------------------------------------------------------------------- C8
\* C8: the response handler had when it entered the finally block is the
\* response it returns, whether rmtree succeeds or fails.
C8_ReleaseKeepsOutcome ==
  /\ [][\A j \in jobs :
          (pc[j] = "finally" /\ result[j] # NoResult) => result'[j] = result[j]]_vars
  /\ [](\A j \in jobs :
          (Done(j) /\ result[j] # NoResult) =>
            outcome[j] = [status |-> "returned", response |-> result[j]])

\* rmtree failed, and handler returned a success response.
C8_Witness ==
  \E j \in jobs :
    /\ Done(j) /\ Succeeded(j)
    /\ released[j] = "failed"
    /\ fs[temp_dir[j]].exists

\* ------------------------------------------------------------------- C9
\* C9: the probe step never raises: it leaves 0 as video_duration when
\* ffprobe fails and hands over to the dispatch; a clip job whose probe
\* failed gets the requested duration, unclamped.
C9_ProbeNeverFails ==
  /\ [][\A j \in jobs :
          (pc[j] = "probe" /\ pc'[j] # "probe") =>
            /\ pc'[j] \in {"clip_args", "thumbnail_args"}
            /\ ~exc'[j].raised
            /\ probe'[j] \in ProbeFailures => video_duration'[j] = 0]_vars
  /\ [](\A j \in jobs :
          (probe[j] \in ProbeFailures /\ clip_args[j].called) =>
            clip_args[j].duration = RequestedDuration(event[j]))

\* ffprobe was missing, and the clip job succeeded with the 30 seconds of
\* the default duration.
C9_Witness ==
  \E j \in jobs :
    /\ Done(j) /\ Succeeded(j) /\ clip_args[j].called
    /\ probe[j] = "tool missing"
    /\ event[j].fields.duration = Absent
    /\ outcome[j].response.duration = DefaultDuration
    /\ outcome[j].response.video_duration = 0

\* ------------------------------------------------------------------ C10
\* C10: every successful generate_thumbnail response has file_size > 0 and
\* a non-empty thumbnail_data.
C10_ThumbnailNeverEmpty ==
  \A j \in jobs :
    (Done(j) /\ Succeeded(j)
       /\ outcome[j].response.operation = Str("generate_thumbnail")) =>
      /\ outcome[j].response.file_size > 0
      /\ outcome[j].response.thumbnail_data # ""

\* ------------------------------------------------------------------ C11
\* C11: the extract step hands over to the read step only if ffmpeg exited
\* with code zero and left an output file that is not empty; a timeout, a
\* non-zero exit, a missing file and an empty file each raise their own
\* message; every successful extract_clip response has file_size > 0.
C11_ClipPostconditions ==
  /\ [][\A j \in jobs :
          (pc[j] = "extract" /\ pc'[j] # "extract") =>
            LET run == ffmpeg_run'[j]
                ok == run.kind = "written" /\ Len(run.data) > 0
            IN /\ pc'[j] = IF ok THEN "read" ELSE "except"
               /\ ok => /\ fs'[temp_dir[j]].hasOutput
                        /\ Len(fs'[temp_dir[j]].output) > 0
               /\ ~ok => exc'[j].raised
               /\ run.kind = "timeout" =>
                    exc'[j].msg = "FFmpeg processing timed out after 10 minutes"
               /\ run.kind = "nonzero" =>
                    exc'[j].msg = "FFmpeg error: FFmpeg processing failed: <stderr>"
               /\ run.kind = "nofile" =>
                    exc'[j].msg = "FFmpeg error: Output file was not created"
               /\ (run.kind = "written" /\ Len(run.data) = 0) =>
                    exc'[j].msg = "FFmpeg error: Output file is empty"]_vars
  /\ [](\A j \in jobs :
          (Done(j) /\ Succeeded(j)
             /\ outcome[j].response.operation = Str("extract_clip")) =>
            /\ outcome[j].response.file_size > 0
            /\ ffmpeg_run[j].kind = "written")

\* ffmpeg exited with code zero and left an empty file: the job failed with
\* the message of the empty output.
C11_Witness ==
  \E j \in jobs :
    /\ Done(j) /\ Failed(j)
    /\ "ffmpeg_clip" \in Range(calls[j])
    /\ ffmpeg_run[j] = [kind |-> "written", data |-> <<>>]
    /\ outcome[j].response.error = "FFmpeg error: Output file is empty"

\* ------------------------------------------------------------------ C12
ArtifactKeys == {"clip_data", "thumbnail_data"}

\* C12: a returned response with success = TRUE has exactly one artifact
\* field, file_size and format, and no error field; one with success = FALSE
\* has an error field and no artifact field.
C12_ArtifactXorError ==
  \A j \in jobs :
    Returned(j) =>
      LET keys == DOMAIN outcome[j].response
      IN IF outcome[j].response.success
           THEN /\ Cardinality(keys \cap ArtifactKeys) = 1
                /\ {"file_size", "format"} \subseteq keys
                /\ "error" \notin keys
           ELSE /\ "error" \in keys
                /\ keys \cap ArtifactKeys = {}

\* A successful clip response with its artifact has been returned.
C12_Witness ==
  \E j \in jobs :
    /\ Done(j) /\ Succeeded(j)
    /\ "clip_data" \in DOMAIN outcome[j].response
    /\ outcome[j].response.clip_data # ""

\* ------------------------------------------------------------------ C13
\* The place of each statement of handler in the pipeline.
StepRank(label) ==
  CASE label = "start" -> 0
    [] label = "acquire" -> 1
    [] label = "input_path" -> 2
    [] label = "download" -> 3
    [] label = "probe" -> 4
    [] label \in {"clip_args", "thumbnail_args"} -> 5
    [] label = "validate_times" -> 6
    [] label \in {"extract", "thumbnail"} -> 7
    [] label = "read" -> 8
    [] label = "encode" -> 9
    [] label = "except" -> 10
    [] label = "finally" -> 11
    [] label = "return" -> 12
    [] label = "done" -> 13
CallRank(name) ==
  CASE name = "mkdtemp" -> 1
    [] name = "download_file" -> 2
    [] name = "ffprobe" -> 3
    [] name \in {"ffmpeg_clip", "ffmpeg_thumbnail"} -> 4
    [] name = "rmtree" -> 5
NewCalls(j) == Range(calls'[j]) \ Range(calls[j])
ProcessingCalls == {"ffmpeg_clip", "ffmpeg_thumbnail"}

\* C13: a job only moves forward through the pipeline, and makes each call
\* at most once and in pipeline order (so at most one of the two ffmpeg
\* operations); ffprobe runs only on a downloaded input, ffmpeg only after
\* the probe step, the artifact is read only after ffmpeg left one; a raise
\* leads to the except block, and from there only the release and the
\* return follow; a successful job has run exactly one ffmpeg operation.
C13_LinearPipeline ==
  /\ [][\A j \in jobs :
          /\ pc'[j] # pc[j] => StepRank(pc'[j]) > StepRank(pc[j])
          /\ calls'[j] # calls[j] => pc'[j] # pc[j]
          /\ "ffprobe" \in NewCalls(j) =>
               /\ fs[temp_dir[j]].input
               /\ calls[j][Len(calls[j])] = "download_file"
          /\ NewCalls(j) \cap ProcessingCalls # {} =>
               /\ probe[j] # "none"
               /\ "ffprobe" \in Range(calls[j])
          /\ (exc'[j].raised /\ ~exc[j].raised) => pc'[j] = "except"
          /\ StepRank(pc[j]) >= StepRank("except") =>
               NewCalls(j) \subseteq {"rmtree"}]_vars
  /\ [](\A j \in jobs :
          /\ \A i, k \in DOMAIN calls[j] :
               i < k => CallRank(calls[j][i]) < CallRank(calls[j][k])
          /\ pc[j] \in {"read", "encode"} =>
               /\ ffmpeg_run[j].kind = "written"
               /\ fs[temp_dir[j]].hasOutput
          /\ (Done(j) /\ Succeeded(j)) =>
               Cardinality(Range(calls[j]) \cap ProcessingCalls) = 1)

\* A thumbnail job went through every step of the pipeline.
C13_Witness ==
  \E j \in jobs :
    /\ Done(j) /\ Succeeded(j)
    /\ calls[j] = <<"mkdtemp", "download_file", "ffprobe", "ffmpeg_thumbnail", "rmtree">>

\* ------------------------------------------------------------------ C14
\* C14: every job eventually reaches the return of its response, also when
\* a tool or the server never finishes on its own.
C14_EventuallyResponds ==
  <>(\A j \in jobs : Done(j))

\* ------------------------------------------------------------------ C15
\* A job holds its workspace from mkdtemp until its finally block has run.
Holds(j) == temp_dir[j] # 0 /\ released[j] = "none"

\* C15: with several jobs interleaved, two jobs that hold a workspace hold
\* different directories; a held workspace stays on disk until its own job
\* releases it; every change to a directory (a file written, the directory
\* created or removed) is made by a step of the job whose workspace it is,
\* and no other job holds that directory at that moment; the artifact a job
\* reads back is the one its own ffmpeg run wrote.
C15_ExclusiveWorkspace ==
  /\ [](\A j \in jobs : \A k \in jobs \ {j} :
          Holds(j) /\ Holds(k) => temp_dir[j] # temp_dir[k])
  /\ [](\A j \in jobs : Holds(j) => fs[temp_dir[j]].exists)
  /\ [][\A d \in DirNames :
          fs'[d] # fs[d] =>
            \E j \in jobs :
              /\ pc'[j] # pc[j]
              /\ temp_dir'[j] = d
              /\ \A k \in jobs \ {j} : ~(Holds(k) /\ temp_dir[k] = d)]_vars
  /\ [][\A j \in jobs :
          pc[j] = "read" /\ pc'[j] = "encode" =>
            /\ fs[temp_dir[j]].exists
            /\ output_data'[j] = ffmpeg_run[j].data]_vars

\* Both jobs hold a workspace at once, job 1 with its artifact written and
\* job 2 with its source downloaded.
C15_Witness ==
  /\ Cardinality(jobs) = 2
  /\ Holds(1) /\ Holds(2)
  /\ fs[temp_dir[1]].hasOutput
  /\ fs[temp_dir[2]].input

\* ------------------------------------------------------------------ C16
\* C16: a request whose operation is absent or is anything other than
\* "generate_thumbnail" is not refused for its operation (with a video_url
\* it passes the first check), takes the clip branch after the probe, never
\* reaches the thumbnail steps nor runs the thumbnail generator, and when it
\* succeeds it has run extract_clip and answers operation "extract_clip".
C16_DefaultsToExtractClip ==
  /\ [](\A j \in jobs :
          IsClipRequest(event[j]) =>
            /\ pc[j] \notin {"thumbnail_args", "thumbnail"}
            /\ "ffmpeg_thumbnail" \notin Range(calls[j])
            /\ Succeeded(j) =>
                 /\ outcome[j].response.operation = Str("extract_clip")
                 /\ clip_args[j].called
                 /\ "ffmpeg_clip" \in Range(calls[j]))
  /\ [][\A j \in jobs :
          IsClipRequest(event[j]) =>
            /\ pc[j] = "start" /\ pc'[j] # "start"
                 /\ Truthy(event[j].fields.video_url)
                 => pc'[j] = "acquire"
            /\ pc[j] = "probe" /\ pc'[j] # "probe" => pc'[j] = "clip_args"
            /\ pc[j] = "clip_args" /\ pc'[j] \notin {"clip_args", "except"}
                 => pc'[j] = "validate_times"
            /\ pc[j] = "validate_times"
                 /\ pc'[j] \notin {"validate_times", "except"}
                 => pc'[j] = "extract"]_vars

\* A request for the unknown operation "resize" has answered with a clip.
C16_Witness ==
  \E j \in jobs :
    /\ Done(j) /\ Succeeded(j)
    /\ event[j].fields.operation = Str("resize")
    /\ calls[j] = <<"mkdtemp", "download_file", "ffprobe", "ffmpeg_clip", "rmtree">>

\* ------------------------------------------------------------------ C17
KnownQualities == {Str("high"), Str("medium"), Str("low")}
MediumSettings == [crf |-> "25", preset |-> "faster"]
UnknownQuality(j) ==
  IsClipRequest(event[j]) /\ event[j].fields.quality \notin KnownQualities

C18_ExtractArgsValid ==
  \A j \in jobs :
    clip_args[j].called =>
      clip_args[j].start_time >= 0 /\ clip_args[j].duration > 0

====
